---- MODULE Spec2Model ----
(***************************************************************************)
(* A model of ergrace.py: the retry_on_exception / print_exception         *)
(* decorators, the ErgRace class (connect, serial lookup, get_data) and    *)
(* the poll loop main with the process boundary of the __main__ block.     *)
(*                                                                         *)
(* Three specifications share the definitions of the decorators:           *)
(*   Spec       the program: __main__ calling main(file)                   *)
(*   SpecErg    one connected ErgRace instance whose get_data is called    *)
(*              repeatedly by a client, with skip_unchanged free per call  *)
(*   SpecRetry  retry_on_exception(types, max_nretries, retry_delay)       *)
(*              around an arbitrary operation                              *)
(* Python's None is the empty tuple << >> and a present value v is <<v>>   *)
(* wherever a value is Optional; "no exception in flight" is NoExc.        *)
(***************************************************************************)
EXTENDS Integers, Sequences, FiniteSets, TLC

\* ------------------------------------------------------------------ bounds
MaxTicks == 3        \* get_data calls started in one run
MaxConnRetries == 3  \* empty enumerations in one call of _connect
MaxRestarts == 1     \* restarts of main caused by a failure before the poll loop
MaxWriteFaults == 1  \* failures of writerow/flush in one run
MaxCalls == 5        \* invocations of the operation under SpecRetry
MaxN == 3            \* largest bounded max_nretries under SpecRetry

\* --------------------------------------------------------------- constants
None == << >>
NoExc == "NoExc"

\* exception classes and their base classes (the class itself included)
Bases(e) ==
    CASE e = "ErgNotFoundException" ->
             {"ErgNotFoundException", "RaceException", "Exception", "BaseException"}
      [] e = "RaceException" -> {"RaceException", "Exception", "BaseException"}
      [] e = "ConnectionError" ->
             {"ConnectionError", "OSError", "Exception", "BaseException"}
      [] e = "OSError" -> {"OSError", "Exception", "BaseException"}
      [] e = "KeyboardInterrupt" -> {"KeyboardInterrupt", "BaseException"}

\* `except exception_types` matches e
IsInstance(e, exception_types) == Bases(e) \cap exception_types # {}

\* str(exception)
Str(e) ==
    CASE e = "ErgNotFoundException" -> "No Concept2 RowErg found."
      [] e = "RaceException" -> "race error"
      [] e = "ConnectionError" -> "connection error"
      [] e = "OSError" -> "os error"
      [] e = "KeyboardInterrupt" -> ""

\* failures the device library can raise, and failures of the output stream
DeviceErrors == {"ConnectionError", "OSError"}
StreamErrors == {"OSError"}

\* ----------------------------------------------------------- print_exception
\* the console after the wrapper's except clause has run for e
PrintException(exception_types, e, out) ==
    IF IsInstance(e, exception_types) THEN Append(out, <<Str(e)>>) ELSE out

\* --------------------------------------------------------- retry_on_exception
\* variant: the bound is compared after counting the retry
ExhaustedOffByOne(nretries, max_nretries) == <<nretries + 1>> = max_nretries

\* variant: max_nretries = None is taken as "no retries"
ExhaustedNoneIsZero(nretries, max_nretries) ==
    IF max_nretries = None THEN nretries = 0 ELSE <<nretries>> = max_nretries

\* `if not nretries is None and nretries == max_nretries`; nretries is an int,
\* so the first conjunct is always true
Exhausted(nretries, max_nretries) == TRUE /\ <<nretries>> = max_nretries

\* variant: the counter lives outside wrapper and keeps its value between calls
InitialNRetriesKept(previous) == previous

\* `nretries = 0` at the start of every call of the wrapper
InitialNRetries(previous) == 0

\* variant: time.sleep is called whether or not a delay was given
RetryExceptAlwaysSleep(exception_types, max_nretries, retry_delay, nretries, e) ==
    IF ~(Bases(e) \cap exception_types # {}) \/ <<nretries>> = max_nretries
    THEN [act |-> "raise", nretries |-> nretries, sleep |-> FALSE]
    ELSE [act |-> "retry", nretries |-> nretries + 1, sleep |-> TRUE]

\* variant: a bare `except:` that retries whatever was raised
RetryExceptCatchAll(exception_types, max_nretries, retry_delay, nretries, e) ==
    IF <<nretries>> = max_nretries
    THEN [act |-> "raise", nretries |-> nretries, sleep |-> FALSE]
    ELSE [act |-> "retry", nretries |-> nretries + 1, sleep |-> retry_delay # None]

\* the except clause of the wrapper for exception e:
\* act "raise" lets e leave the wrapper, "retry" loops; sleep says whether
\* time.sleep(retry_delay) is called before looping
RetryExcept(exception_types, max_nretries, retry_delay, nretries, e) ==
    IF ~IsInstance(e, exception_types)
    THEN [act |-> "raise", nretries |-> nretries, sleep |-> FALSE]
    ELSE IF Exhausted(nretries, max_nretries)
    THEN [act |-> "raise", nretries |-> nretries, sleep |-> FALSE]
    ELSE [act |-> "retry", nretries |-> nretries + 1, sleep |-> retry_delay # None]

\* the decorator arguments at the three sites (delays in tenths of a second)
ConnectRetryTypes == {"RaceException"}
\* variant: _connect gives up after one retry
ConnectMaxNRetriesBounded == <<1>>
ConnectMaxNRetries == None
ConnectRetryDelay == <<10>>
ConnectPrintTypes == {"RaceException"}
\* variant: get_data retried on any BaseException
GetDataRetryTypesBase == {"BaseException"}
GetDataRetryTypes == {"Exception"}
GetDataMaxNRetries == <<10>>
GetDataRetryDelay == <<1>>
\* variant: main retried on any Exception
MainRetryTypesBroad == {"Exception"}
MainRetryTypes == {"ConnectionError", "RaceException"}
MainMaxNRetries == None
MainRetryDelay == <<10>>
MainPrintTypes == {"ConnectionError"}

\* ------------------------------------------------------------------ ErgRace
Headers == <<"time", "distance", "spm", "power", "pace">>
HeaderRow == <<"date">> \o Headers

\* monitor snapshots the device can return
Snapshots ==
    { [time |-> 10, distance |-> d[1], spm |-> d[2], power |-> 150, pace |-> 120] :
        d \in {<<50, 20>>, <<60, 20>>} }

\* device descriptors and the enumerations pyrow.find() can return
Descriptors == {"ergA", "ergB"}
Enumerations ==
    {<< >>} \cup {<<d>> : d \in Descriptors}
            \cup {<<d1, d2>> : <<d1, d2>> \in {p \in Descriptors \X Descriptors : p[1] # p[2]}}

\* PyErg(device, debug=False)
PyErg(device) == [dev |-> device]
\* str(erg.get_erg()["serial"])
Serial(erg) == IF erg.dev = "ergA" THEN "430000001" ELSE "430000002"

\* _getdate(): the formatted wall clock
GetDate == "yy-mm-dd HH:MM:SS"

\* str() of the numbers the snapshots hold, as csv.writer renders them
IntToStr(n) ==
    CASE n = 10 -> "10" [] n = 20 -> "20" [] n = 22 -> "22" [] n = 50 -> "50"
      [] n = 60 -> "60" [] n = 120 -> "120" [] n = 150 -> "150"

\* values = [ self._getdate() ] + [ mon_data[h] for h in self._headers ]
Values(mon_data) == <<GetDate>> \o [i \in 1..Len(Headers) |-> mon_data[Headers[i]]]

\* the row csv.writer emits for values: the date string and the numbers as text
CsvRow(values) == <<values[1]>> \o [i \in 1..(Len(values) - 1) |-> IntToStr(values[i + 1])]

VARIABLES
    pc,               \* position of the single thread of control
    caller,           \* who called get_data: "main" or "client"
    exc,              \* exception in flight, or NoExc
    raised_by,        \* the operation that raised exc
    interrupted,      \* a KeyboardInterrupt has been delivered
    console,          \* lines printed since the exception last raised was raised
                      \* (the tail of the console), each a tuple of strings
    file,             \* rows written to the stream (buffered ones included)
    flushed,          \* number of rows of file known to be flushed
    closed,           \* the stream has been closed
    header_written,   \* ErgRace._header_written
    mon_data_last,    \* ErgRace._mon_data_last
    erg,              \* ErgRace._erg
    devices,          \* local of _connect: the last enumeration
    skip_unchanged,   \* argument of the get_data call in progress
    values,           \* result of the last get_data call that returned
    connect_nretries, \* nretries of the wrapper around _connect
    getdata_nretries, \* nretries of the wrapper around get_data
    main_nretries,    \* nretries of the wrapper around main
    nticks,           \* get_data calls started
    rows_before,      \* Len(file) when the get_data call in progress was made
    nwritefaults,     \* failures injected into writerow/flush
    everRead,         \* some device read has returned a snapshot
    calls,            \* the get_data calls that returned, in order
    faulted,          \* per instance: some step of get_data has failed
    w_pc, w_types, w_max, w_delay, w_nretries, w_calls, w_ndelays, w_exc, w_result

progVars ==
    <<pc, caller, exc, raised_by, interrupted, console, file, flushed,
      closed, header_written, mon_data_last, erg, devices, skip_unchanged, values,
      connect_nretries, getdata_nretries, main_nretries, nticks, rows_before, nwritefaults, everRead, calls,
      faulted>>
wVars == <<w_pc, w_types, w_max, w_delay, w_nretries, w_calls, w_ndelays, w_exc, w_result>>
vars == <<progVars, wVars>>


\* =========================================================== the program
\* an exception e raised by operation `by` reaches the except clause at `handler`
Raise(e, by, handler) ==
    /\ exc' = e
    /\ raised_by' = by
    /\ console' = << >>
    /\ pc' = handler

\* where control goes when get_data returns, resp. lets an exception out
ReturnTo(c) == IF c = "main" THEN "tick_print" ELSE "idle"
RaiseTo(c) == IF c = "main" THEN "main_print" ELSE "idle"

\* no retry_on_exception wrapper under test
WrapperOff ==
    /\ w_pc = "off"
    /\ w_types = {}
    /\ w_max = None
    /\ w_delay = None
    /\ w_nretries = 0
    /\ w_calls = << >>
    /\ w_ndelays = 0
    /\ w_exc = NoExc
    /\ w_result = None

\* __main__ has printed the file name, opened the file and calls main(file)
Init ==
    /\ pc = "main_call"
    /\ caller = "main"
    /\ exc = NoExc
    /\ raised_by = "none"
    /\ interrupted = FALSE
    /\ console = << <<"Saving to CSV file", "erg__yymmdd_HHMMSS.csv">> >>
    /\ file = << >>
    /\ flushed = 0
    /\ closed = FALSE
    /\ header_written = FALSE
    /\ mon_data_last = None
    /\ erg = None
    /\ devices = << >>
    /\ skip_unchanged = FALSE
    /\ values = None
    /\ connect_nretries = 0
    /\ getdata_nretries = 0
    /\ main_nretries = 0
    /\ nticks = 0
    /\ rows_before = 0
    /\ nwritefaults = 0
    /\ everRead = FALSE
    /\ calls = << >>
    /\ faulted = FALSE
    /\ WrapperOff

\* a failure before the poll loop that makes main start over is injected only
\* while main has started over fewer than MaxRestarts times
RestartAllowed(e) == IsInstance(e, MainRetryTypes) => main_nretries < MaxRestarts

\* main's retry wrapper invokes main: erg_race = ErgRace(iostream) builds a
\* fresh instance (class defaults for its fields) and enters _connect
MainCall ==
    /\ pc = "main_call"
    /\ header_written' = FALSE
    /\ mon_data_last' = None
    /\ erg' = None
    /\ connect_nretries' = 0
    /\ faulted' = FALSE
    /\ exc' = NoExc
    /\ pc' = "connect_body"
    /\ UNCHANGED <<caller, raised_by, interrupted, console, file, flushed,
                   closed, devices, skip_unchanged, values, getdata_nretries,
                   main_nretries, nticks, rows_before, nwritefaults, everRead, calls,
                   wVars>>

\* devices[0]
FirstDevice(ds) == ds[1]

\* the body of _connect
ConnectBody ==
    /\ pc = "connect_body"
    /\ \/ \E e \in DeviceErrors :
            /\ RestartAllowed(e)
            /\ Raise(e, "connect", "connect_print")
            /\ UNCHANGED <<devices, erg>>
       \/ \E ds \in Enumerations :
            /\ devices' = ds
            /\ IF Len(ds) = 0
               THEN /\ connect_nretries < MaxConnRetries
                    /\ Raise("ErgNotFoundException", "connect", "connect_print")
                    /\ UNCHANGED erg
               ELSE LET out == IF Len(ds) > 1
                               THEN Append(console,
                                 <<"Multiple Concept2 RowErgs connected. Using the first one, only.">>)
                               ELSE console
                    IN \/ /\ erg' = PyErg(FirstDevice(ds))
                          /\ console' = out
                          /\ pc' = "serial"
                          /\ UNCHANGED <<exc, raised_by>>
                       \/ \E e \in DeviceErrors :
                          /\ RestartAllowed(e)
                          /\ Raise(e, "connect", "connect_print")
                          /\ UNCHANGED erg
    /\ UNCHANGED <<caller, interrupted, file, flushed, closed, header_written,
                   mon_data_last, skip_unchanged, values, connect_nretries,
                   getdata_nretries, main_nretries, nticks, rows_before, nwritefaults, everRead,
                   calls, faulted, wVars>>

\* print_exception(RaceException) around _connect: print and raise again
ConnectPrint ==
    /\ pc = "connect_print"
    /\ console' = PrintException(ConnectPrintTypes, exc, console)
    /\ pc' = "connect_except"
    /\ UNCHANGED <<caller, exc, raised_by, interrupted, file, flushed, closed,
                   header_written, mon_data_last, erg, devices, skip_unchanged, values,
                   connect_nretries, getdata_nretries, main_nretries, nticks, rows_before,
                   nwritefaults, everRead, calls, faulted, wVars>>

\* retry_on_exception(RaceException, None, 1) around _connect: the except clause
ConnectExcept ==
    /\ pc = "connect_except"
    /\ LET r == RetryExcept(ConnectRetryTypes, ConnectMaxNRetries, ConnectRetryDelay,
                            connect_nretries, exc)
       IN /\ connect_nretries' = r.nretries
          /\ IF r.act = "retry"
             THEN /\ pc' = IF r.sleep THEN "connect_sleep" ELSE "connect_body"
                  /\ exc' = NoExc
                  /\ raised_by' = "none"
             ELSE /\ pc' = "main_print"
                  /\ exc' = exc
                  /\ raised_by' = raised_by
    /\ UNCHANGED <<caller, interrupted, console, file, flushed,
                   closed, header_written, mon_data_last, erg, devices, skip_unchanged,
                   values, getdata_nretries, main_nretries, nticks, rows_before, nwritefaults, everRead, calls, faulted, wVars>>

\* time.sleep(retry_delay) of the wrapper around _connect ends
ConnectSleep ==
    /\ pc = "connect_sleep"
    /\ pc' = "connect_body"
    /\ UNCHANGED <<caller, exc, raised_by, interrupted, console, file, flushed,
                   closed, header_written, mon_data_last, erg, devices, skip_unchanged,
                   values, connect_nretries, getdata_nretries, main_nretries, nticks, rows_before,
                   nwritefaults, everRead, calls, faulted, wVars>>

\* print("Connected to RowErg with serial " + erg_race.get_erg_serial())
Serial_ ==
    /\ pc = "serial"
    /\ \/ /\ console' = Append(console, <<"Connected to RowErg with serial", Serial(erg)>>)
          /\ pc' = "loop"
          /\ UNCHANGED <<exc, raised_by>>
       \/ \E e \in DeviceErrors :
          /\ RestartAllowed(e)
          /\ Raise(e, "get_erg_serial", "main_print")
    /\ UNCHANGED <<caller, interrupted, file, flushed, closed, header_written,
                   mon_data_last, erg, devices, skip_unchanged, values, connect_nretries,
                   getdata_nretries, main_nretries, nticks, rows_before, nwritefaults, everRead,
                   calls, faulted, wVars>>

\* while True: values = erg_race.get_data()  -- the call enters the retry wrapper
MainLoop ==
    /\ pc = "loop"
    /\ nticks < MaxTicks
    /\ nticks' = nticks + 1
    /\ rows_before' = Len(file)
    /\ getdata_nretries' = InitialNRetries(getdata_nretries)
    /\ skip_unchanged' = FALSE
    /\ exc' = NoExc
    /\ pc' = "getdata_body"
    /\ UNCHANGED <<caller, raised_by, interrupted, console, file, flushed,
                   closed, header_written, mon_data_last, erg, devices, values,
                   connect_nretries, main_nretries, nwritefaults, everRead,
                   calls, faulted, wVars>>

\* variant: the snapshots are compared by identity, never equal
SkippedNever(skip, mon_data, last) == FALSE

\* if skip_unchanged and mon_data == self._mon_data_last
Skipped(skip, mon_data, last) == skip /\ <<mon_data>> = last

\* variant: the header guard is missing
NeedHeaderAlways(written) == TRUE

\* if not self._header_written
NeedHeader(written) == ~written

\* variant: the row is left in the stream's buffer
FlushMissing(f, done) == done

\* self._csv_file.flush(): every row written so far reaches the file
Flush(f, done) == Len(f)

\* the body of get_data for a device read that returns snapshot s; fault names
\* the statement that raises e ("none": no statement raises)
GetDataRun(s, fault, e) ==
    LET skipped == Skipped(skip_unchanged, s, mon_data_last)
        needHeader == NeedHeader(header_written)
        withHeader == IF needHeader /\ fault # "header" THEN Append(file, HeaderRow) ELSE file
        row == CsvRow(Values(s))
        withRow == IF fault \in {"none", "flush"} THEN Append(withHeader, row) ELSE withHeader
    IN /\ everRead' = TRUE
       /\ IF skipped
          THEN /\ fault = "none"
               /\ values' = None
               /\ calls' = Append(calls, [skip |-> skip_unchanged, snap |-> s,
                                          ret |-> None, rows |-> Len(file)])
               /\ pc' = ReturnTo(caller)
               /\ UNCHANGED <<mon_data_last, header_written, file, flushed, exc,
                              raised_by, console, nwritefaults, faulted>>
          ELSE /\ mon_data_last' = <<s>>
               /\ fault = "header" => needHeader
               /\ header_written' = (header_written \/ fault # "header")
               /\ file' = withRow
               /\ IF fault = "none"
                  THEN /\ flushed' = Flush(withRow, flushed)
                       /\ values' = <<Values(s)>>
                       /\ calls' = Append(calls, [skip |-> skip_unchanged, snap |-> s,
                                                  ret |-> <<Values(s)>>,
                                                  rows |-> Len(withRow)])
                       /\ pc' = ReturnTo(caller)
                       /\ UNCHANGED <<exc, raised_by, console, nwritefaults,
                                      faulted>>
                  ELSE /\ nwritefaults < MaxWriteFaults
                       /\ nwritefaults' = nwritefaults + 1
                       /\ faulted' = TRUE
                       /\ Raise(e, "get_data", "getdata_except")
                       /\ UNCHANGED <<flushed, values, calls>>

\* one invocation of the body of get_data by its retry wrapper
GetDataBody ==
    /\ pc = "getdata_body"
    /\ \/ \E e \in DeviceErrors :
            /\ faulted' = TRUE
            /\ Raise(e, "get_data", "getdata_except")
            /\ UNCHANGED <<mon_data_last, header_written, file, flushed, values, calls,
                           nwritefaults, everRead>>
       \/ \E s \in Snapshots : GetDataRun(s, "none", NoExc)
       \/ \E s \in Snapshots, fault \in {"header", "row", "flush"}, e \in StreamErrors :
            GetDataRun(s, fault, e)
    /\ UNCHANGED <<caller, interrupted, closed, erg, devices, skip_unchanged,
                   connect_nretries, getdata_nretries, main_nretries, nticks, rows_before,
                   wVars>>

\* retry_on_exception(Exception, 10, 0.1) around get_data: the except clause
GetDataExcept ==
    /\ pc = "getdata_except"
    /\ LET r == RetryExcept(GetDataRetryTypes, GetDataMaxNRetries, GetDataRetryDelay,
                            getdata_nretries, exc)
       IN /\ getdata_nretries' = r.nretries
          /\ IF r.act = "retry"
             THEN /\ pc' = IF r.sleep THEN "getdata_sleep" ELSE "getdata_body"
                  /\ exc' = NoExc
                  /\ raised_by' = "none"
             ELSE /\ pc' = RaiseTo(caller)
                  /\ exc' = exc
                  /\ raised_by' = raised_by
    /\ UNCHANGED <<caller, interrupted, console, file, flushed,
                   closed, header_written, mon_data_last, erg, devices, skip_unchanged,
                   values, connect_nretries, main_nretries, nticks, rows_before, nwritefaults, everRead, calls, faulted, wVars>>

\* time.sleep(retry_delay) of the wrapper around get_data ends
GetDataSleep ==
    /\ pc = "getdata_sleep"
    /\ pc' = "getdata_body"
    /\ UNCHANGED <<caller, exc, raised_by, interrupted, console, file, flushed,
                   closed, header_written, mon_data_last, erg, devices, skip_unchanged,
                   values, connect_nretries, getdata_nretries, main_nretries, nticks, rows_before,
                   nwritefaults, everRead, calls, faulted, wVars>>

\* if values: print(values)   -- then time.sleep(1) begins
MainPrintValues ==
    /\ pc = "tick_print"
    /\ console' = IF values # None THEN Append(console, CsvRow(values[1])) ELSE console
    /\ pc' = "tick_sleep"
    /\ UNCHANGED <<caller, exc, raised_by, interrupted, file, flushed, closed,
                   header_written, mon_data_last, erg, devices, skip_unchanged, values,
                   connect_nretries, getdata_nretries, main_nretries, nticks, rows_before,
                   nwritefaults, everRead, calls, faulted, wVars>>

\* time.sleep(1) of the poll loop ends
MainTickSleep ==
    /\ pc = "tick_sleep"
    /\ pc' = "loop"
    /\ UNCHANGED <<caller, exc, raised_by, interrupted, console, file, flushed,
                   closed, header_written, mon_data_last, erg, devices, skip_unchanged,
                   values, connect_nretries, getdata_nretries, main_nretries, nticks, rows_before,
                   nwritefaults, everRead, calls, faulted, wVars>>

\* print_exception(ConnectionError) around main: print and raise again
MainPrint ==
    /\ pc = "main_print"
    /\ console' = PrintException(MainPrintTypes, exc, console)
    /\ pc' = "main_except"
    /\ UNCHANGED <<caller, exc, raised_by, interrupted, file, flushed, closed,
                   header_written, mon_data_last, erg, devices, skip_unchanged, values,
                   connect_nretries, getdata_nretries, main_nretries, nticks, rows_before,
                   nwritefaults, everRead, calls, faulted, wVars>>

\* retry_on_exception((ConnectionError, RaceException), None, 1) around main:
\* the except clause; an exception that leaves it reaches the __main__ block
MainExcept ==
    /\ pc = "main_except"
    /\ LET r == RetryExcept(MainRetryTypes, MainMaxNRetries, MainRetryDelay,
                            main_nretries, exc)
       IN /\ main_nretries' = r.nretries
          /\ IF r.act = "retry"
             THEN /\ pc' = IF r.sleep THEN "main_sleep" ELSE "main_call"
                  /\ exc' = NoExc
                  /\ raised_by' = "none"
             ELSE /\ pc' = "boundary"
                  /\ exc' = exc
                  /\ raised_by' = raised_by
    /\ UNCHANGED <<caller, interrupted, console, file, flushed,
                   closed, header_written, mon_data_last, erg, devices, skip_unchanged,
                   values, connect_nretries, getdata_nretries, nticks, rows_before, nwritefaults, everRead, calls, faulted, wVars>>

\* time.sleep(retry_delay) of the wrapper around main ends
MainSleep ==
    /\ pc = "main_sleep"
    /\ pc' = "main_call"
    /\ UNCHANGED <<caller, exc, raised_by, interrupted, console, file, flushed,
                   closed, header_written, mon_data_last, erg, devices, skip_unchanged,
                   values, connect_nretries, getdata_nretries, main_nretries, nticks, rows_before,
                   nwritefaults, everRead, calls, faulted, wVars>>

\* the except clause that an exception raised at position p reaches first
Handler(p) ==
    CASE p = "connect_body" -> "connect_print"
      [] p = "connect_print" -> "connect_except"
      [] p = "getdata_body" -> "getdata_except"
      [] p \in {"main_call", "connect_except", "connect_sleep", "serial", "loop",
                "getdata_except", "getdata_sleep", "tick_print", "tick_sleep"} ->
             "main_print"
      [] p = "main_print" -> "main_except"
      [] p \in {"main_except", "main_sleep"} -> "boundary"

InMain ==
    {"main_call", "connect_body", "connect_print", "connect_except", "connect_sleep",
     "serial", "loop", "getdata_body", "getdata_except", "getdata_sleep", "tick_print",
     "tick_sleep", "main_print", "main_except", "main_sleep"}

\* the operator presses Ctrl-C: KeyboardInterrupt is raised where control is
Interrupt ==
    /\ pc \in InMain
    /\ ~interrupted
    /\ interrupted' = TRUE
    /\ Raise("KeyboardInterrupt", "interrupt", Handler(pc))
    /\ UNCHANGED <<caller, file, flushed, closed, header_written, mon_data_last, erg,
                   devices, skip_unchanged, values, connect_nretries, getdata_nretries,
                   main_nretries, nticks, rows_before, nwritefaults, everRead, calls,
                   faulted, wVars>>

\* the __main__ block: the with statement closes the file, then
\* `except KeyboardInterrupt: pass`; any other exception ends the process
ProcessExit ==
    /\ pc = "boundary"
    /\ closed' = TRUE
    /\ flushed' = Len(file)
    /\ pc' = IF IsInstance(exc, {"KeyboardInterrupt"}) THEN "exited" ELSE "crashed"
    /\ UNCHANGED <<caller, exc, raised_by, interrupted, console, file,
                   header_written, mon_data_last, erg, devices, skip_unchanged, values,
                   connect_nretries, getdata_nretries, main_nretries, nticks, rows_before,
                   nwritefaults, everRead, calls, faulted, wVars>>

Next ==
    \/ MainCall
    \/ ConnectBody
    \/ ConnectPrint
    \/ ConnectExcept
    \/ ConnectSleep
    \/ Serial_
    \/ MainLoop
    \/ GetDataBody
    \/ GetDataExcept
    \/ GetDataSleep
    \/ MainPrintValues
    \/ MainTickSleep
    \/ MainPrint
    \/ MainExcept
    \/ MainSleep
    \/ Interrupt
    \/ ProcessExit

Spec == Init /\ [][Next]_vars

\* ============================================== one ErgRace used by a client
\* an instance has been constructed on an empty stream and is connected
\* (__init__ hands the module-level name `file` to csv.writer, so the stream
\* is the one the __main__ block opened)
InitErg ==
    /\ pc = "idle"
    /\ caller = "client"
    /\ exc = NoExc
    /\ raised_by = "none"
    /\ interrupted = FALSE
    /\ console = << >>
    /\ file = << >>
    /\ flushed = 0
    /\ closed = FALSE
    /\ header_written = FALSE
    /\ mon_data_last = None
    /\ erg \in {PyErg(d) : d \in Descriptors}
    /\ devices = << >>
    /\ skip_unchanged = FALSE
    /\ values = None
    /\ connect_nretries = 0
    /\ getdata_nretries = 0
    /\ main_nretries = 0
    /\ nticks = 0
    /\ rows_before = 0
    /\ nwritefaults = 0
    /\ everRead = FALSE
    /\ calls = << >>
    /\ faulted = FALSE
    /\ WrapperOff

\* the client calls get_data(skip_unchanged=skip)
ClientCall ==
    /\ pc = "idle"
    /\ nticks < MaxTicks
    /\ nticks' = nticks + 1
    /\ rows_before' = Len(file)
    /\ \E skip \in BOOLEAN : skip_unchanged' = skip
    /\ getdata_nretries' = InitialNRetries(getdata_nretries)
    /\ exc' = NoExc
    /\ raised_by' = "none"
    /\ pc' = "getdata_body"
    /\ UNCHANGED <<caller, interrupted, console, file, flushed, closed, header_written,
                   mon_data_last, erg, devices, values, connect_nretries, main_nretries,
                   nwritefaults, everRead, calls, faulted, wVars>>

NextErg ==
    \/ ClientCall
    \/ GetDataBody
    \/ GetDataExcept
    \/ GetDataSleep

SpecErg == InitErg /\ [][NextErg]_vars

\* ===================================== retry_on_exception around an operation
\* the decorator arguments tried: the three exception filters of the program
TypeConfigs == {ConnectRetryTypes, GetDataRetryTypes, MainRetryTypes}
\* what the wrapped operation can return or raise
OpResults == {"r1", "r2"}
OpErrors == {"ErgNotFoundException", "RaceException", "ConnectionError", "OSError",
             "KeyboardInterrupt"}

\* wrapper(*args) has been called: nretries = 0, about to enter the loop
InitRetry ==
    /\ pc = "off"
    /\ caller = "none"
    /\ exc = NoExc
    /\ raised_by = "none"
    /\ interrupted = FALSE
    /\ console = << >>
    /\ file = << >>
    /\ flushed = 0
    /\ closed = FALSE
    /\ header_written = FALSE
    /\ mon_data_last = None
    /\ erg = None
    /\ devices = << >>
    /\ skip_unchanged = FALSE
    /\ values = None
    /\ connect_nretries = 0
    /\ getdata_nretries = 0
    /\ main_nretries = 0
    /\ nticks = 0
    /\ rows_before = 0
    /\ nwritefaults = 0
    /\ everRead = FALSE
    /\ calls = << >>
    /\ faulted = FALSE
    /\ w_pc = "call"
    /\ w_types \in TypeConfigs
    /\ w_max \in {None} \cup {<<n>> : n \in 0..MaxN}
    /\ w_delay \in {None, <<1>>}
    /\ w_nretries = 0
    /\ w_calls = << >>
    /\ w_ndelays = 0
    /\ w_exc = NoExc
    /\ w_result = None

\* try: return func(*args, **kwargs)
WrapperCall ==
    /\ w_pc = "call"
    /\ Len(w_calls) < MaxCalls
    /\ \/ \E v \in OpResults :
            /\ w_calls' = Append(w_calls, v)
            /\ w_result' = <<v>>
            /\ w_pc' = "returned"
            /\ UNCHANGED w_exc
       \/ \E e \in OpErrors :
            /\ w_calls' = Append(w_calls, e)
            /\ w_exc' = e
            /\ w_pc' = "except"
            /\ UNCHANGED w_result
    /\ UNCHANGED <<progVars, w_types, w_max, w_delay, w_nretries, w_ndelays>>

\* except exception_types: raise, or count the retry
WrapperExcept ==
    /\ w_pc = "except"
    /\ LET r == RetryExcept(w_types, w_max, w_delay, w_nretries, w_exc)
       IN /\ w_nretries' = r.nretries
          /\ IF r.act = "retry"
             THEN /\ w_pc' = IF r.sleep THEN "sleep" ELSE "call"
                  /\ w_exc' = NoExc
             ELSE /\ w_pc' = "raised"
                  /\ w_exc' = w_exc
    /\ UNCHANGED <<progVars, w_types, w_max, w_delay, w_calls, w_ndelays, w_result>>

\* time.sleep(retry_delay) is taken, then the loop goes round
WrapperSleep ==
    /\ w_pc = "sleep"
    /\ w_ndelays' = w_ndelays + 1
    /\ w_pc' = "call"
    /\ UNCHANGED <<progVars, w_types, w_max, w_delay, w_nretries, w_calls, w_exc,
                   w_result>>

NextRetry ==
    \/ WrapperCall
    \/ WrapperExcept
    \/ WrapperSleep

SpecRetry == InitRetry /\ [][NextRetry]_vars

\* ================================================================ properties
HeaderCount(f) == Cardinality({i \in 1..Len(f) : f[i] = HeaderRow})
DataRows(f) == SelectSeq(f, LAMBDA r : r # HeaderRow)

\* C1: over one process run, restarts of main included, the file holds the
\* header row exactly once, before every data row, and only if a reading has
\* been produced.
C1_HeaderExactlyOnce ==
    /\ HeaderCount(file) <= 1
    /\ file # << >> => (HeaderCount(file) = 1 /\ file[1] = HeaderRow)
    /\ HeaderCount(file) > 0 => everRead

\* the row that a snapshot must appear as: six fields, date first, then the
\* snapshot's time, distance, spm, power and pace as text
ExpectedRow(snap) ==
    <<GetDate, IntToStr(snap.time), IntToStr(snap.distance), IntToStr(snap.spm),
      IntToStr(snap.power), IntToStr(snap.pace)>>

NoSkipCalls == \A i \in 1..Len(calls) : ~calls[i].skip
AllSkipCalls == \A i \in 1..Len(calls) : calls[i].skip

\* C2: after N >= 1 get_data calls on one instance, skip_unchanged disabled and
\* no failures, the output is the header row followed by N data rows of six
\* fields in the column order date, time, distance, spm, power, pace.
C2_HeaderPlusNRows ==
    (pc = "idle" /\ ~faulted /\ Len(calls) >= 1 /\ NoSkipCalls) =>
        /\ Len(file) = Len(calls) + 1
        /\ file[1] = <<"date", "time", "distance", "spm", "power", "pace">>
        /\ \A i \in 1..Len(calls) :
              /\ Len(file[i + 1]) = 6
              /\ file[i + 1] = ExpectedRow(calls[i].snap)

C2_Witness ==
    /\ pc = "idle"
    /\ ~faulted
    /\ Len(calls) = 3
    /\ NoSkipCalls
    /\ Len(file) = 4
    /\ calls[2].snap = calls[3].snap

\* data rows in the file when the k-th call returned
DataCountAt(k) == IF k = 0 THEN 0 ELSE Len(DataRows(SubSeq(file, 1, calls[k].rows)))

AllRetryable ==
    \A i \in 1..Len(w_calls) : w_calls[i] \in OpErrors /\ IsInstance(w_calls[i], w_types)

\* C4: with max_nretries = n and an operation that raises a retryable exception
\* on every call, the operation is invoked exactly n + 1 times and then the last
\* exception propagates.
C4_BoundedRetries ==
    (w_pc # "off" /\ w_max # None /\ AllRetryable) =>
        /\ Len(w_calls) <= w_max[1] + 1
        /\ w_pc # "returned"
        /\ w_pc = "raised" =>
              /\ Len(w_calls) = w_max[1] + 1
              /\ w_exc = w_calls[Len(w_calls)]

C4_Witness ==
    /\ w_pc = "raised"
    /\ w_max = <<3>>
    /\ Len(w_calls) = 4
    /\ AllRetryable

\* C5: with max_nretries = None and an operation that raises retryable exceptions
\* on its first k - 1 calls and succeeds on call k, the wrapper never propagates
\* a failure, invokes the operation exactly k times, none after the success, and
\* returns the result of call k.
C5_UnboundedRetries ==
    (w_pc # "off" /\ w_max = None) =>
        /\ w_pc = "raised" => ~IsInstance(w_exc, w_types)
        /\ \A i \in 1..(Len(w_calls) - 1) : w_calls[i] \notin OpResults
        /\ w_pc = "returned" =>
              /\ w_calls[Len(w_calls)] \in OpResults
              /\ w_result = <<w_calls[Len(w_calls)]>>
              /\ Len(w_calls) = w_nretries + 1
              /\ \A i \in 1..(Len(w_calls) - 1) : IsInstance(w_calls[i], w_types)

C5_Witness ==
    /\ w_pc = "returned"
    /\ w_max = None
    /\ Len(w_calls) = 5
    /\ w_nretries = 4
    /\ w_result = <<w_calls[5]>>

\* C6: an exception that is not an instance of exception_types propagates at
\* once, whatever max_nretries is and however many retries were taken: the
\* operation is not invoked again and no delay is taken.
C6_NonRetryablePropagates ==
    /\ [](w_pc = "raised" =>
            /\ w_exc = w_calls[Len(w_calls)]
            /\ w_ndelays <= Len(w_calls) - 1
            /\ w_ndelays <= w_nretries)
    /\ [][(w_pc = "except" /\ ~IsInstance(w_exc, w_types)) =>
            /\ w_pc' = "raised"
            /\ w_exc' = w_exc
            /\ w_calls' = w_calls
            /\ w_ndelays' = w_ndelays]_vars
    /\ [][w_pc = "raised" => w_pc' = "raised" /\ w_calls' = w_calls]_vars

C6_Witness ==
    /\ w_pc = "raised"
    /\ w_exc = "ConnectionError"
    /\ w_types = {"RaceException"}
    /\ w_nretries = 2
    /\ Len(w_calls) = 3

\* C7: _connect never lets "no device found" out: an empty enumeration is always
\* followed by the delay and another enumeration, and when an enumeration returns
\* one or more devices _connect returns a handle on the first of them.
C7_ConnectWaitsForDevice ==
    /\ [](exc = "ErgNotFoundException" => pc \in {"connect_print", "connect_except"})
    /\ [](pc = "serial" => (Len(devices) >= 1 /\ erg = [dev |-> devices[1]]))
    /\ [][(pc = "connect_except" /\ exc = "ErgNotFoundException") =>
            (pc' = "connect_sleep" \/ exc' = "KeyboardInterrupt")]_vars
    /\ [][pc = "connect_sleep" =>
            (pc' = "connect_body" \/ exc' = "KeyboardInterrupt")]_vars

C7_Witness ==
    /\ pc = "serial"
    /\ connect_nretries = 3
    /\ Len(devices) = 2
    /\ erg = [dev |-> devices[1]]

\* C8: main ends only on an external interrupt: as long as no interrupt has been
\* delivered, main neither returns nor lets an exception out.
C8_EndsOnlyOnInterrupt ==
    ~interrupted => pc \notin {"boundary", "crashed", "exited"}

\* C9: an exception that get_data lets out after its retries are used up makes
\* main start over (delay, new ErgRace, reconnect) if and only if it is a
\* ConnectionError or a RaceException; any other one leaves main and ends the
\* process with no reconnect.
C9_RestartIffConnectionLevel ==
    /\ [](pc = "main_except" /\ raised_by = "get_data" => getdata_nretries = 10)
    /\ [][(pc = "main_except" /\ raised_by = "get_data") =>
            \/ exc' = "KeyboardInterrupt"
            \/ IF Bases(exc) \cap {"ConnectionError", "RaceException"} # {}
               THEN pc' = "main_sleep"
               ELSE pc' = "boundary" /\ exc' = exc]_vars
    /\ [][pc = "main_sleep" => (pc' = "main_call" \/ exc' = "KeyboardInterrupt")]_vars
    /\ [][pc = "main_call" =>
            \/ exc' = "KeyboardInterrupt"
            \/ /\ pc' = "connect_body"
               /\ ~header_written'
               /\ mon_data_last' = None
               /\ connect_nretries' = 0]_vars
    /\ [][(pc \in {"boundary", "crashed", "exited"}) =>
            (pc' = IF exc = "KeyboardInterrupt" THEN "exited" ELSE "crashed")]_vars

C9_Witness ==
    /\ pc = "main_call"
    /\ main_nretries = 1
    /\ nticks = 2
    /\ getdata_nretries = 10
    /\ Len(file) = 2

\* C10: at each of the three retry sites, an exception that the retry wrapper
\* catches and retries has had its message printed before the wrapped operation
\* is invoked again.
C10_AnnouncedBeforeRetry ==
    [][(/\ pc \in {"connect_except", "getdata_except", "main_except"}
        /\ pc' \in {"connect_sleep", "getdata_sleep", "main_sleep"}) =>
          \E i \in 1..Len(console) : console[i] = <<Str(exc)>>]_vars

\* C11: a KeyboardInterrupt raised anywhere inside main is caught by no retry or
\* print wrapper; it reaches the __main__ block, where the file is closed, and
\* once it has been raised no device read is made and no row is written.
C11_InterruptEndsRun ==
    /\ [](interrupted =>
            /\ exc = "KeyboardInterrupt"
            /\ pc \in {"connect_print", "connect_except", "getdata_except",
                       "main_print", "main_except", "boundary", "exited"})
    /\ [](pc = "exited" => (interrupted /\ closed /\ flushed = Len(file)))
    /\ [][interrupted =>
            /\ file' = file
            /\ calls' = calls
            /\ console' = console
            /\ getdata_nretries' = getdata_nretries
            /\ connect_nretries' = connect_nretries
            /\ main_nretries' = main_nretries]_vars
    /\ [][(interrupted /\ pc = "boundary") => (pc' = "exited" /\ closed')]_vars

C11_Witness ==
    /\ pc = "exited"
    /\ interrupted
    /\ closed
    /\ getdata_nretries = 2
    /\ Len(file) = 2
    /\ flushed = 2

\* C12: in the poll loop every get_data call that returns has appended exactly
\* one data row, whether or not the snapshot changed and whether or not the call
\* retried after a failed device read, row write or flush.
C12_OneRowPerTick ==
    pc = "tick_print" =>
        Len(DataRows(file)) = Len(DataRows(SubSeq(file, 1, rows_before))) + 1

\* C13: at every point the data rows of the file are the snapshots of the
\* get_data calls that returned, in that order, and the row of each was in the
\* file when its call returned (before the next read).
C13_LoggedInAcquisitionOrder ==
    /\ DataRows(file) = [i \in 1..Len(calls) |-> ExpectedRow(calls[i].snap)]
    /\ \A i \in 1..Len(calls) :
          /\ calls[i].rows <= Len(file)
          /\ file[calls[i].rows] = ExpectedRow(calls[i].snap)

\* C14: when get_data returns a row every row written so far, the header
\* included, has been flushed; no row that a get_data call returned is ever
\* unflushed afterwards.
C14_FlushedAfterEveryRow ==
    /\ (pc = "tick_print" /\ values # None) => flushed = Len(file)
    /\ \A i \in 1..Len(calls) : calls[i].ret # None => flushed >= calls[i].rows

C14_Witness ==
    /\ pc = "tick_print"
    /\ values # None
    /\ nwritefaults = 1
    /\ nticks = 2
    /\ Len(file) >= 3
    /\ flushed = Len(file)

\* C15: the retry counter of get_data belongs to one call and starts at zero in
\* every call: within a call ten consecutive failures are retried and the
\* eleventh leaves the call, and the failures of earlier calls never count.
C15_CounterPerCall ==
    /\ [](getdata_nretries \in 0..10)
    /\ []((pc = "idle" /\ exc # NoExc) => getdata_nretries = 10)
    /\ [][(pc = "idle" /\ pc' = "getdata_body") => getdata_nretries' = 0]_vars
    /\ [][(pc = "getdata_except" /\ getdata_nretries < 10) =>
            /\ pc' = "getdata_sleep"
            /\ getdata_nretries' = getdata_nretries + 1]_vars
    /\ [][(pc = "getdata_except" /\ getdata_nretries = 10) =>
            /\ pc' = "idle"
            /\ exc' = exc
            /\ getdata_nretries' = 10]_vars
    /\ [][(pc = "getdata_body" /\ pc' = "idle") =>
            (exc' = NoExc /\ Len(calls') = Len(calls) + 1)]_vars

\* the first call failed 11 times and raised, the second failed 10 times and
\* returned
C15_Witness ==
    /\ pc = "idle"
    /\ nticks = 2
    /\ Len(calls) = 1
    /\ exc = NoExc
    /\ getdata_nretries = 10

\* C16: a failure in _connect that is not a RaceException is not retried by the
\* wrapper around _connect, leaves _connect after that one attempt, and its
\* message has been printed by the time it has propagated.
C16_ConnectFailureLogged ==
    /\ []((pc = "main_except" /\ raised_by = "connect" /\ exc \in DeviceErrors) =>
            \E i \in 1..Len(console) : console[i] = <<Str(exc)>>)
    /\ [][(pc = "connect_except" /\ exc \in DeviceErrors) =>
            \/ exc' = "KeyboardInterrupt"
            \/ /\ pc' = "main_print"
               /\ exc' = exc
               /\ connect_nretries' = connect_nretries]_vars

\* delays taken so far when a non-null retry_delay is in force
DelaysDue == IF w_pc = "call" THEN Len(w_calls) ELSE Len(w_calls) - 1

\* C17: with a retry_delay exactly one delay lies between two consecutive
\* invocations, so delays and retries are equal in number; none before the first
\* invocation, after a success or before the final failure propagates; with
\* retry_delay = None no delay is taken at all.
C17_OneDelayPerRetry ==
    (w_pc # "off") =>
        /\ w_delay = None => w_ndelays = 0
        /\ w_delay # None => w_ndelays = DelaysDue
        /\ (w_delay # None /\ w_pc \in {"call", "returned", "raised"}) =>
              w_ndelays = w_nretries
        /\ Len(w_calls) = 0 => w_ndelays = 0

C17_Witness ==
    /\ w_pc = "raised"
    /\ w_delay # None
    /\ w_max = <<3>>
    /\ Len(w_calls) = 4
    /\ w_ndelays = 3
    /\ w_exc = "ConnectionError"
    /\ w_types = {"Exception"}

\* C18: between get_data attempts _mon_data_last is None with no data row
\* written by the instance, or it is the snapshot of the last data row that the
\* instance wrote.
C18_CacheMatchesFile ==
    (pc \in {"idle", "getdata_body", "getdata_except", "getdata_sleep"}) =>
        IF mon_data_last = None
        THEN DataRows(file) = << >>
        ELSE /\ DataRows(file) # << >>
             /\ DataRows(file)[Len(DataRows(file))] = ExpectedRow(mon_data_last[1])

====
